---- MODULE Spec2Model ----
(***************************************************************************)
(* Model of template_updater (src/main.py): a sequential script that lists *)
(* the index templates of a search cluster, filters them by an allow-list, *)
(* asks for one confirmation, rewrites the shard/replica settings of each  *)
(* template (read-modify-write) and probes every updated template by       *)
(* creating, inspecting and deleting a test index.                         *)
(*                                                                         *)
(* Python strings the program computes with (template names, index         *)
(* patterns, the input line, numbers in their string encoding) are         *)
(* sequences of one-character strings; JSON objects are functions whose    *)
(* domain is the set of keys that are present.                             *)
(***************************************************************************)
EXTENDS Integers, Sequences, FiniteSets, TLC

VARIABLES
    pc,                 \* position of main(): discover, prompt, update, create,
                        \* verify, delete, summary, done (calls: the call harness)
    template_to_change, \* the allow-list (main.py:15)
    stored,             \* the cluster's templates: name -> template body
    templates,          \* response of get_templates() (main.py:198)
    template_details,   \* main.py:206
    proceed,            \* the answer read at the prompt (main.py:218)
    updated_templates,  \* main.py:224
    failed_templates,   \* main.py:225
    idx,                \* index of the running loop iteration
    verified,           \* main.py:246
    log,                \* every request issued, in order
    calls,              \* every function call that returned or raised, in order
    out,                \* the outcome lines printed by main
    ret,                \* what main() returned: running, None, 0, 1
    last                \* the last call made by the call harness

vars == <<pc, template_to_change, stored, templates, template_details, proceed,
          updated_templates, failed_templates, idx, verified, log, calls, out,
          ret, last>>

----------------------------------------------------------------------------
(* Bounds *)

\* Largest shard/replica count the call harness passes or the cluster reports.
MaxCount == 2

\* Number of names of NameUniverse the cluster can hold templates under.
MaxNames == 2

----------------------------------------------------------------------------
(* Python values *)

\* {} : the dict with no key
EmptyDict == [x \in {} |-> 0]

Has(d, k) == k \in DOMAIN d

\* d.get(k, default)
Get(d, k, default) == IF k \in DOMAIN d THEN d[k] ELSE default

\* d[k] = v
Set(d, k, v) == [x \in (DOMAIN d) \cup {k} |-> IF x = k THEN v ELSE d[x]]

Range(s) == {s[i] : i \in DOMAIN s}

Digits == <<"0", "1", "2", "3", "4", "5", "6", "7", "8", "9">>

RECURSIVE StrNat(_)
StrNat(n) ==
    IF n < 10 THEN <<Digits[n + 1]>>
    ELSE StrNat(n \div 10) \o <<Digits[(n % 10) + 1]>>

\* str(n) for an integer n
str(n) == IF n < 0 THEN <<"-">> \o StrNat(0 - n) ELSE StrNat(n)

IsDigit(c) == \E d \in 1..10 : Digits[d] = c

DigitVal(c) == (CHOOSE d \in 1..10 : Digits[d] = c) - 1

RECURSIVE NatOf(_)
NatOf(s) ==
    IF s = <<>> THEN 0
    ELSE 10 * NatOf(SubSeq(s, 1, Len(s) - 1)) + DigitVal(s[Len(s)])

Unsigned(s) == IF s # <<>> /\ s[1] \in {"-", "+"} THEN Tail(s) ELSE s

\* int(s) for a string s: the value, or ValueError (ok = FALSE)
int(s) ==
    LET b == Unsigned(s)
        good == b # <<>> /\ \A i \in 1..Len(b) : IsDigit(b[i])
    IN  IF ~good THEN [ok |-> FALSE, val |-> 0]
        ELSE [ok |-> TRUE,
              val |-> IF s[1] = "-" THEN 0 - NatOf(b) ELSE NatOf(b)]

\* s.replace(c, r) for a one-character c: every occurrence is replaced
RECURSIVE replace(_, _, _)
replace(s, c, r) ==
    IF s = <<>> THEN <<>>
    ELSE (IF Head(s) = c THEN r ELSE <<Head(s)>>) \o replace(Tail(s), c, r)

LowerChar(c) ==
    IF c = "Y" THEN "y" ELSE IF c = "N" THEN "n" ELSE IF c = "E" THEN "e"
    ELSE IF c = "S" THEN "s" ELSE c

\* s.lower()
lower(s) == [i \in DOMAIN s |-> LowerChar(s[i])]

----------------------------------------------------------------------------
(* Configuration (main.py:12-15), names abbreviated *)

\* "sharding_test_template"
target_template == <<"t">>

\* "audit-v1"
source_template == <<"a">>

\* The names a cluster or an allow-list can hold: the two configured names
\* and names that extend target_template (so that a prefix differs from
\* an equal name).
NameUniverse == <<target_template, <<"t", "2">>, source_template, <<"t", "3">>>>

Names == {NameUniverse[i] : i \in 1..MaxNames}

\* "_test"
TestSuffix == <<"_", "t", "e", "s", "t">>

\* The allow-lists considered: the one of the source and edits of it.
AllowLists ==
    {<<target_template>>,
     <<target_template, NameUniverse[2]>>,
     <<NameUniverse[2], source_template>>}

----------------------------------------------------------------------------
(* run_command and opensearch_command (main.py:20-37) *)

\* What the cluster does with one request: the connection fails (curl exits
\* non-zero), the output is no JSON, the API rejects the request, the API
\* answers without confirming, or the API does what was asked.
Modes == {"down", "garbled", "reject", "nack", "ok"}

\* The curl process of one request: exit code and standard output.
Curl(mode, reject, nack, ok) ==
    CASE mode = "down"    -> [rc |-> 7, parses |-> FALSE, val |-> EmptyDict]
      [] mode = "garbled" -> [rc |-> 0, parses |-> FALSE, val |-> EmptyDict]
      [] mode = "reject"  -> [rc |-> 0, parses |-> TRUE, val |-> reject]
      [] mode = "nack"    -> [rc |-> 0, parses |-> TRUE, val |-> nack]
      [] OTHER            -> [rc |-> 0, parses |-> TRUE, val |-> ok]

\* run_command(command): check=True raises CalledProcessError on a non-zero
\* exit; output that is no JSON gives None.
run_command(proc) ==
    IF proc.rc # 0 THEN [kind |-> "exc", val |-> EmptyDict]
    ELSE IF ~proc.parses THEN [kind |-> "none", val |-> EmptyDict]
    ELSE [kind |-> "json", val |-> proc.val]

\* Python truth value of a response: None and {} are false.
Truthy(response) == response.kind = "json" /\ DOMAIN response.val # {}

\* One entry of the request log: the calling function, the request, the
\* template being processed and how the cluster treated the request.
Request(fn, method, endpoint, name, template, mode) ==
    [fn |-> fn, m |-> method, ep |-> endpoint, n |-> name, t |-> template,
     mode |-> mode]

\* Error reply of an endpoint whose reply is keyed by names.
ErrorKey == <<"e", "r", "r", "o", "r">>

NamedError == (ErrorKey :> EmptyDict)

\* Error reply of an endpoint whose reply is keyed by field names.
FieldError == [error |-> TRUE, status |-> 400]

----------------------------------------------------------------------------
(* get_templates and get_template_details (main.py:39-69) *)

StartsWith(s, prefix) ==
    Len(prefix) <= Len(s) /\ SubSeq(s, 1, Len(prefix)) = prefix

\* A faulty FilterNames: the filter matches by prefix (k.startswith(name)).
FilterNamesByPrefix(reported, allow) ==
    {k \in DOMAIN reported : \E a \in Range(allow) : StartsWith(k, a)}

\* main.py:204: {k: v for k, v in templates.items() if k in template_to_change}
FilterNames(reported, allow) == {k \in DOMAIN reported : k \in Range(allow)}

\* main.py:50-58 raises for this template (index_patterns[0] of an empty list)
DetailRaises(template_data) ==
    Has(template_data, "index_patterns") /\ template_data["index_patterns"] = <<>>

\* "default"
Default == <<"d", "e", "f", "a", "u", "l", "t">>

\* main.py:50-65: the summary of one template
Detail(template_name, template_data) ==
    LET settings == Get(Get(template_data, "settings", EmptyDict), "index", EmptyDict)
    IN  [name |-> template_name,
         shards |-> Get(settings, "number_of_shards", Default),
         replicas |-> Get(settings, "number_of_replicas", Default),
         test_index |->
            IF Has(template_data, "index_patterns")
            THEN replace(template_data["index_patterns"][1], "*", TestSuffix)
            ELSE template_name \o TestSuffix]

\* get_template_details(templates), templates iterated in the order `order`;
\* a template whose processing raises is skipped.
RECURSIVE get_template_details(_, _)
get_template_details(reported, order) ==
    IF order = <<>> THEN <<>>
    ELSE LET k == Head(order)
             rest == get_template_details(reported, Tail(order))
         IN  IF DetailRaises(reported[k]) THEN rest
             ELSE <<Detail(k, reported[k])>> \o rest

\* The orders in which a JSON object with the keys S can be iterated.
Orderings(S) == {s \in [1..Cardinality(S) -> S] : Range(s) = S}

----------------------------------------------------------------------------
(* update_template (main.py:71-101) *)

\* A faulty PatchSettings: the settings are built anew from the two counts.
PatchSettingsAnew(template_config, shards, replicas) ==
    Set(template_config, "settings",
        [index |-> [number_of_shards |-> str(shards),
                    number_of_replicas |-> str(replicas)]])

\* A faulty PatchSettings: every update also counts the version up.
PatchSettingsVersioned(template_config, shards, replicas) ==
    LET c1 == PatchSettingsAnew(template_config, shards, replicas)
    IN  Set(c1, "version", Get(template_config, "version", 0) + 1)

\* main.py:83-90: the body put back
PatchSettings(template_config, shards, replicas) ==
    LET c1 == IF ~Has(template_config, "settings")
              THEN Set(template_config, "settings", EmptyDict)
              ELSE template_config
        s1 == IF ~Has(c1["settings"], "index")
              THEN Set(c1["settings"], "index", EmptyDict)
              ELSE c1["settings"]
        i1 == Set(Set(s1["index"], "number_of_shards", str(shards)),
                  "number_of_replicas", str(replicas))
    IN  Set(c1, "settings", Set(s1, "index", i1))

\* response and response.get('acknowledged', False)
Acknowledged(response) ==
    Truthy(response) /\ Get(response.val, "acknowledged", FALSE)

\* update_template(template_name, shards, replicas) against the cluster
\* state st, the cluster treating the GET as g and the PUT as p: whether it
\* raised, what it returned, the cluster state it leaves and the requests it
\* issued. The cluster stores the body exactly when it acknowledges the PUT.
update_template(st, template_name, shards, replicas, g, p) ==
    LET getReq == Request("update_template", "GET", "_template", template_name,
                          template_name, g)
        putReq == Request("update_template", "PUT", "_template", template_name,
                          template_name, p)
        found == IF template_name \in DOMAIN st
                 THEN (template_name :> st[template_name]) ELSE EmptyDict
        current_template == run_command(Curl(g, NamedError, EmptyDict, found))
        template_config == PatchSettings(current_template.val[template_name],
                                         shards, replicas)
        response == run_command(Curl(p, FieldError, [acknowledged |-> FALSE],
                                     [acknowledged |-> TRUE]))
    IN  IF current_template.kind = "exc"
        THEN [raised |-> TRUE, ret |-> FALSE, stored |-> st, reqs |-> <<getReq>>]
        ELSE IF ~Truthy(current_template)
                \/ template_name \notin DOMAIN current_template.val
        THEN [raised |-> FALSE, ret |-> FALSE, stored |-> st, reqs |-> <<getReq>>]
        ELSE IF response.kind = "exc"
        THEN [raised |-> TRUE, ret |-> FALSE, stored |-> st,
              reqs |-> <<getReq, putReq>>]
        ELSE [raised |-> FALSE, ret |-> Acknowledged(response),
              stored |-> IF p = "ok" THEN Set(st, template_name, template_config)
                         ELSE st,
              reqs |-> <<getReq, putReq>>]

----------------------------------------------------------------------------
(* create_test_document, verify_index_settings, delete_index
   (main.py:103-160) *)

\* A faulty create_test_document: any reply with a result field is a success.
create_test_document_any_result(index_name, c) ==
    LET response == run_command(Curl(c, FieldError, [result |-> "noop"],
                                     [result |-> "created"]))
    IN  [raised |-> response.kind = "exc",
         ret |-> Truthy(response) /\ Has(response.val, "result")]

\* create_test_document(index_name), the cluster treating the POST as c
create_test_document(index_name, c) ==
    LET response == run_command(Curl(c, FieldError, [result |-> "noop"],
                                     [result |-> "created"]))
    IN  [raised |-> response.kind = "exc",
         ret |-> /\ Truthy(response)
                 /\ Has(response.val, "result")
                 /\ response.val["result"] \in {"created", "updated"}]

\* A faulty verify_index_settings: only the shard count is compared.
verify_index_settings_shards_only(response, index_name, expected_shards, expected_replicas) ==
    IF response.kind = "exc" THEN [raised |-> TRUE, ret |-> FALSE]
    ELSE IF ~Truthy(response) \/ index_name \notin DOMAIN response.val
    THEN [raised |-> FALSE, ret |-> FALSE]
    ELSE
    LET settings == Get(Get(response.val[index_name], "settings", EmptyDict),
                        "index", EmptyDict)
        actual_shards == int(Get(settings, "number_of_shards", <<"-", "1">>))
        actual_replicas == int(Get(settings, "number_of_replicas", <<"-", "1">>))
    IN  IF ~actual_shards.ok \/ (~actual_replicas.ok)
        THEN [raised |-> TRUE, ret |-> FALSE]
        ELSE [raised |-> FALSE, ret |-> actual_shards.val = expected_shards]

\* verify_index_settings(index_name, expected_shards, expected_replicas),
\* response being what run_command gave for GET {index_name}/_settings
verify_index_settings(response, index_name, expected_shards, expected_replicas) ==
    IF response.kind = "exc" THEN [raised |-> TRUE, ret |-> FALSE]
    ELSE IF ~Truthy(response) \/ index_name \notin DOMAIN response.val
    THEN [raised |-> FALSE, ret |-> FALSE]
    ELSE
    LET settings == Get(Get(response.val[index_name], "settings", EmptyDict),
                        "index", EmptyDict)
        actual_shards == int(Get(settings, "number_of_shards", <<"-", "1">>))
        actual_replicas == int(Get(settings, "number_of_replicas", <<"-", "1">>))
    IN  IF ~actual_shards.ok \/ (~actual_replicas.ok)
        THEN [raised |-> TRUE, ret |-> FALSE]
        ELSE [raised |-> FALSE,
              ret |-> /\ actual_shards.val = expected_shards
                      /\ actual_replicas.val = expected_replicas]

\* delete_index(index_name), the cluster treating the DELETE as d
delete_index(index_name, d) ==
    LET response == run_command(Curl(d, FieldError, [acknowledged |-> FALSE],
                                     [acknowledged |-> TRUE]))
    IN  [raised |-> response.kind = "exc", ret |-> Acknowledged(response)]

----------------------------------------------------------------------------
(* The cluster: the data it can hold and the replies it can give *)

\* Shard/replica counts in the API's string encoding.
CountStrings == {str(n) : n \in 0..MaxCount}

\* Index-level settings holding any subset of `keys`, the counts among vals.
SettingsOver(vals, keys) ==
    LET full == {[number_of_shards |-> a, number_of_replicas |-> b,
                  refresh_interval |-> <<"1", "s">>] : a \in vals, b \in vals}
    IN  {[k \in K |-> f[k]] : f \in full, K \in SUBSET keys}

\* The index-level settings an index reports: each count absent, a number
\* or not a number.
IndexSettings ==
    SettingsOver(CountStrings \cup {<<"x">>},
                 {"number_of_shards", "number_of_replicas"})

\* The index-level settings a template holds: each count absent or a number,
\* another setting present or not.
TemplateIndexSettings ==
    SettingsOver(CountStrings,
                 {"number_of_shards", "number_of_replicas", "refresh_interval"})

\* Reply of GET {index_name}/_settings
SettingsReplies(index_name) ==
    {(index_name :> [settings |-> [index |-> s]]) : s \in IndexSettings}
    \cup {(index_name :> EmptyDict), (index_name \o <<"2">> :> EmptyDict)}

\* Template bodies of the runs of main: all fields present, nothing but the
\* order, and an empty pattern list.
MainBodies ==
    {[index_patterns |-> <<<<"l", "-", "*">>>>, order |-> 0,
      settings |-> [index |-> [number_of_shards |-> str(MaxCount),
                               number_of_replicas |-> str(MaxCount)]]],
     [order |-> 0],
     [index_patterns |-> <<>>]}

ClusterStates == UNION {[S -> MainBodies] : S \in SUBSET Names}

\* Lines typed at the prompt.
Answers == {<<"y">>, <<"Y">>, <<"n">>, <<"y", "e", "s">>, <<>>}

----------------------------------------------------------------------------
(* main (main.py:189-272) *)

NoCall == [fn |-> "none"]

Line(msg, name) == [msg |-> msg, name |-> name]

Call(fn, template, res) ==
    [fn |-> fn, t |-> template, raised |-> res.raised, ret |-> res.ret]

\* A faulty confirmed: any answer that starts with y is taken as yes.
confirmedByFirstLetter(answer) == answer # <<>> /\ lower(answer)[1] = "y"

\* main.py:219: the answer lets the run go on
confirmed(answer) == lower(answer) = <<"y">>

\* A faulty AfterUpdate: the probe starts as soon as one template is updated.
AfterUpdateProbeAtOnce(k, n, nUpdated) ==
    IF nUpdated > 0 THEN [pc |-> "create", idx |-> 1]
    ELSE IF k < n THEN [pc |-> "update", idx |-> k + 1]
    ELSE [pc |-> "summary", idx |-> 0]

\* main.py:227-237: where main stands after iteration k of the update loop
\* over n templates, nUpdated of them updated so far (k = 0: on entry)
AfterUpdate(k, n, nUpdated) ==
    IF k < n THEN [pc |-> "update", idx |-> k + 1]
    ELSE IF nUpdated > 0 THEN [pc |-> "create", idx |-> 1]
    ELSE [pc |-> "summary", idx |-> 0]

\* main.py:237-259: where main stands after iteration k of the probe loop
AfterProbe(k, nUpdated) ==
    IF k < nUpdated THEN [pc |-> "create", idx |-> k + 1]
    ELSE [pc |-> "summary", idx |-> 0]

\* main.py:241: where the probe of a template goes after create_test_document
AfterCreate(success) == IF success THEN "verify" ELSE "next"

\* A faulty Accumulate: a failed template is not recorded.
AccumulateUpdatedOnly(updated, failed, template, success) ==
    IF success THEN [updated |-> Append(updated, template), failed |-> failed]
    ELSE [updated |-> updated, failed |-> failed]

\* main.py:228-231: the two accumulator lists after one update_template call
Accumulate(updated, failed, template, success) ==
    IF success THEN [updated |-> Append(updated, template), failed |-> failed]
    ELSE [updated |-> updated, failed |-> Append(failed, template)]

\* sys.exit(main()) (main.py:275): None and 0 exit with 0
ExitCode == IF ret = "1" THEN 1 ELSE 0

Init ==
    /\ pc = "discover"
    /\ template_to_change \in AllowLists
    /\ stored \in ClusterStates
    /\ templates = [kind |-> "unset", val |-> EmptyDict]
    /\ template_details = <<>>
    /\ proceed = [asked |-> FALSE, answer |-> <<>>]
    /\ updated_templates = <<>>
    /\ failed_templates = <<>>
    /\ idx = 0
    /\ verified = FALSE
    /\ log = <<>>
    /\ calls = <<>>
    /\ out = <<>>
    /\ ret = "running"
    /\ last = NoCall

\* main.py:268-270: an exception reaches the handler of main
Abort ==
    /\ out' = Append(out, Line("An error occurred", <<>>))
    /\ ret' = "1"
    /\ pc' = "done"

\* main.py:198-215
GetTemplates ==
    /\ pc = "discover"
    /\ \E mode \in Modes :
        LET response == run_command(Curl(mode, NamedError, EmptyDict, stored))
        IN  /\ log' = Append(log, Request("get_templates", "GET", "_template",
                                          <<>>, <<>>, mode))
            /\ IF response.kind = "exc"
               THEN /\ Abort
                    /\ UNCHANGED <<templates, template_details>>
               ELSE IF ~Truthy(response)
               THEN /\ templates' = response
                    /\ out' = Append(out, Line("No templates found", <<>>))
                    /\ ret' = "None"
                    /\ pc' = "done"
                    /\ UNCHANGED template_details
               ELSE /\ templates' = response
                    /\ \E order \in Orderings(FilterNames(response.val,
                                                          template_to_change)) :
                         template_details' = get_template_details(response.val, order)
                    /\ pc' = "prompt"
                    /\ UNCHANGED <<out, ret>>
    /\ UNCHANGED <<template_to_change, stored, proceed, updated_templates,
                   failed_templates, idx, verified, calls, last>>

\* main.py:218-225
Confirm ==
    /\ pc = "prompt"
    /\ \E answer \in Answers :
        /\ proceed' = [asked |-> TRUE, answer |-> answer]
        /\ IF ~confirmed(answer)
           THEN /\ out' = Append(out, Line("Operation canceled", <<>>))
                /\ ret' = "None"
                /\ pc' = "done"
                /\ UNCHANGED idx
           ELSE LET next == AfterUpdate(0, Len(template_details), 0)
                IN  /\ pc' = next.pc
                    /\ idx' = next.idx
                    /\ UNCHANGED <<out, ret>>
    /\ UNCHANGED <<template_to_change, stored, templates, template_details,
                   updated_templates, failed_templates, verified, log, calls, last>>

\* main.py:227-231: one iteration of the update loop; the script asks for
\* 1 shard and 1 replica
UpdateStep ==
    /\ pc = "update"
    /\ \E g \in Modes, p \in Modes :
        LET template == template_details[idx]
            res == update_template(stored, template.name, 1, 1, g, p)
            acc == Accumulate(updated_templates, failed_templates, template, res.ret)
            next == AfterUpdate(idx, Len(template_details), Len(acc.updated))
        IN  /\ stored' = res.stored
            /\ log' = log \o res.reqs
            /\ calls' = Append(calls, Call("update_template", template.name, res))
            /\ IF res.raised
               THEN /\ Abort
                    /\ UNCHANGED <<updated_templates, failed_templates, idx>>
               ELSE /\ updated_templates' = acc.updated
                    /\ failed_templates' = acc.failed
                    /\ pc' = next.pc
                    /\ idx' = next.idx
                    /\ UNCHANGED <<out, ret>>
    /\ UNCHANGED <<template_to_change, templates, template_details, proceed,
                   verified, last>>

\* main.py:237-241, 255-256: the probe document of one updated template
ProbeCreate ==
    /\ pc = "create"
    /\ \E c \in Modes :
        LET template == updated_templates[idx]
            res == create_test_document(template.test_index, c)
            next == AfterProbe(idx, Len(updated_templates))
        IN  /\ log' = Append(log, Request("create_test_document", "POST", "_doc",
                                          template.test_index, template.name, c))
            /\ calls' = Append(calls, Call("create_test_document", template.name, res))
            /\ IF res.raised
               THEN Abort /\ UNCHANGED idx
               ELSE IF AfterCreate(res.ret) = "verify"
               THEN /\ pc' = "verify"
                    /\ UNCHANGED <<out, ret, idx>>
               ELSE /\ out' = Append(out, Line("Failed to test", template.name))
                    /\ pc' = next.pc
                    /\ idx' = next.idx
                    /\ UNCHANGED ret
    /\ UNCHANGED <<template_to_change, stored, templates, template_details, proceed,
                   updated_templates, failed_templates, verified, last>>

\* main.py:242-246: the settling delay and the read-back of the settings
ProbeVerify ==
    /\ pc = "verify"
    /\ \E mode \in Modes :
       \E reply \in SettingsReplies(updated_templates[idx].test_index) :
        LET template == updated_templates[idx]
            response == run_command(Curl(mode, NamedError, EmptyDict, reply))
            res == verify_index_settings(response, template.test_index, 1, 1)
        IN  /\ log' = Append(log, Request("verify_index_settings", "GET", "_settings",
                                          template.test_index, template.name, mode))
            /\ calls' = Append(calls, Call("verify_index_settings", template.name, res))
            /\ IF res.raised
               THEN Abort /\ UNCHANGED verified
               ELSE /\ verified' = res.ret
                    /\ pc' = "delete"
                    /\ UNCHANGED <<out, ret>>
    /\ UNCHANGED <<template_to_change, stored, templates, template_details, proceed,
                   updated_templates, failed_templates, idx, last>>

\* main.py:248-254: the cleanup and the verdict on the template
ProbeDelete ==
    /\ pc = "delete"
    /\ \E d \in Modes :
        LET template == updated_templates[idx]
            res == delete_index(template.test_index, d)
            next == AfterProbe(idx, Len(updated_templates))
        IN  /\ log' = Append(log, Request("delete_index", "DELETE", "index",
                                          template.test_index, template.name, d))
            /\ calls' = Append(calls, Call("delete_index", template.name, res))
            /\ IF res.raised
               THEN Abort /\ UNCHANGED idx
               ELSE /\ out' = Append(out,
                            Line(IF verified THEN "updated and verified"
                                 ELSE "updated but verification failed",
                                 template.name))
                    /\ pc' = next.pc
                    /\ idx' = next.idx
                    /\ UNCHANGED ret
    /\ UNCHANGED <<template_to_change, stored, templates, template_details, proceed,
                   updated_templates, failed_templates, verified, last>>

\* main.py:258-272
Summary ==
    /\ pc = "summary"
    /\ out' = Append(out, Line("Summary", <<>>))
    /\ ret' = "0"
    /\ pc' = "done"
    /\ UNCHANGED <<template_to_change, stored, templates, template_details, proceed,
                   updated_templates, failed_templates, idx, verified, log, calls,
                   last>>

Next ==
    \/ GetTemplates
    \/ Confirm
    \/ UpdateStep
    \/ ProbeCreate
    \/ ProbeVerify
    \/ ProbeDelete
    \/ Summary

Spec == Init /\ [][Next]_vars

----------------------------------------------------------------------------
(* Call harnesses: update_template and verify_index_settings called with any
   arguments, update_template any number of times against one cluster *)

\* Settings of a template: empty, without index, with index.
TemplateSettings ==
    {EmptyDict, [analysis |-> EmptyDict]}
    \cup {[index |-> s, analysis |-> EmptyDict] : s \in TemplateIndexSettings}

\* Template bodies of the harness: with or without settings, with or without
\* other fields.
HarnessBodies ==
    LET other == [index_patterns |-> <<<<"l", "-", "*">>>>, order |-> 0]
    IN  {EmptyDict, other, [settings |-> EmptyDict]}
        \cup {[index_patterns |-> other.index_patterns, order |-> other.order,
               settings |-> s] : s \in TemplateSettings}

\* The cluster holds another template, and target_template or not.
HarnessStates ==
    {(NameUniverse[2] :> [order |-> 0])}
    \cup {(target_template :> b) @@ (NameUniverse[2] :> [order |-> 0]) :
            b \in HarnessBodies}

\* Shard and replica counts a caller can ask for.
ShardCounts == 1..MaxCount

ReplicaCounts == 0..MaxCount

\* Counts a caller can expect; -1 is the value verify_index_settings reads
\* for an absent field.
ExpectedCounts == (0 - 1)..MaxCount

\* How the cluster treats the GET and the PUT of one update_template call;
\* the PUT is issued only after a GET that was answered.
ModePairs ==
    {<<g, "ok">> : g \in Modes \ {"ok"}} \cup {<<"ok", p>> : p \in Modes}

\* "l-_test", the test index of the pattern "l-*"
HarnessIndex == <<"l", "-">> \o TestSuffix

Idle ==
    /\ template_to_change = <<target_template>>
    /\ templates = [kind |-> "unset", val |-> EmptyDict]
    /\ template_details = <<>>
    /\ proceed = [asked |-> FALSE, answer |-> <<>>]
    /\ updated_templates = <<>>
    /\ failed_templates = <<>>
    /\ idx = 0
    /\ verified = FALSE
    /\ log = <<>>
    /\ calls = <<>>
    /\ out = <<>>
    /\ ret = "running"
    /\ last = NoCall

InitUpdate ==
    /\ pc = "calls"
    /\ stored \in HarnessStates
    /\ Idle

\* update_template(template_name, shards, replicas)
CallUpdate ==
    /\ pc = "calls"
    /\ \E template_name \in {target_template},
          shards \in ShardCounts, replicas \in ReplicaCounts, gp \in ModePairs :
        LET res == update_template(stored, template_name, shards, replicas,
                                   gp[1], gp[2])
        IN  /\ stored' = res.stored
            /\ last' = [fn |-> "update_template", name |-> template_name,
                        shards |-> shards, replicas |-> replicas,
                        before |-> stored, raised |-> res.raised, ret |-> res.ret,
                        repeat |-> /\ last.fn = "update_template"
                                   /\ last.ret
                                   /\ last.name = template_name
                                   /\ last.shards = shards
                                   /\ last.replicas = replicas]
    /\ UNCHANGED <<pc, template_to_change, templates, template_details, proceed,
                   updated_templates, failed_templates, idx, verified, log, calls,
                   out, ret>>

SpecUpdate == InitUpdate /\ [][CallUpdate]_vars

InitVerify ==
    /\ pc = "calls"
    /\ stored = EmptyDict
    /\ Idle

\* verify_index_settings(index_name, expected_shards, expected_replicas)
CallVerify ==
    /\ pc = "calls"
    /\ \E mode \in Modes, reply \in SettingsReplies(HarnessIndex),
          expected_shards \in ExpectedCounts, expected_replicas \in ExpectedCounts :
        LET response == run_command(Curl(mode, NamedError, EmptyDict, reply))
            res == verify_index_settings(response, HarnessIndex, expected_shards,
                                         expected_replicas)
        IN  last' = [fn |-> "verify_index_settings", response |-> response,
                     index_name |-> HarnessIndex,
                     expected_shards |-> expected_shards,
                     expected_replicas |-> expected_replicas,
                     raised |-> res.raised, ret |-> res.ret]
    /\ UNCHANGED <<pc, template_to_change, stored, templates, template_details,
                   proceed, updated_templates, failed_templates, idx, verified, log,
                   calls, out, ret>>

SpecVerify == InitVerify /\ [][CallVerify]_vars

----------------------------------------------------------------------------
(* Claims about the runs of main (Spec) *)

StateChanging(e) == e.m \in {"PUT", "POST", "DELETE"}

\* Number of calls of fn made while processing template t
CallCount(fn, t) ==
    Cardinality({i \in DOMAIN calls : calls[i].fn = fn /\ calls[i].t = t})

DetailNames == {template_details[i].name : i \in DOMAIN template_details}

UpdatedNames == {updated_templates[i].name : i \in DOMAIN updated_templates}

Printed(msg, name) == \E i \in DOMAIN out : out[i] = Line(msg, name)

\* The prompt was answered and the answer was y or Y.
SaidYes == proceed.asked /\ lower(proceed.answer) = <<"y">>

C3_CleanupOnce ==
    pc = "done" =>
        \A i \in DOMAIN calls :
            (calls[i].fn = "create_test_document" /\ calls[i].ret)
                => CallCount("delete_index", calls[i].t) = 1

\* C4: failures are local to one template: a run that was confirmed processes
\* every template, whatever request failed on the way (update_template is
\* called for each template of template_details and the probe is started for
\* each updated one).
C4_FailuresLocal ==
    (pc = "done" /\ SaidYes) =>
        /\ \A t \in DetailNames : CallCount("update_template", t) = 1
        /\ \A t \in UpdatedNames : CallCount("create_test_document", t) = 1

\* C5: no PUT for a later template is issued before the probe POST and the
\* cleanup DELETE of an earlier, successfully updated template.
C5_OneTemplateAtATime ==
    \A i \in DOMAIN log : \A j \in DOMAIN log :
        ( /\ i < j
          /\ log[i].m = "PUT"
          /\ log[j].m = "PUT"
          /\ log[i].t # log[j].t
          /\ log[i].t \in UpdatedNames )
        => /\ \E k \in 1..(j - 1) : log[k].m = "POST" /\ log[k].t = log[i].t
           /\ \E k \in 1..(j - 1) : log[k].m = "DELETE" /\ log[k].t = log[i].t

ProbeFns == {"create_test_document", "verify_index_settings", "delete_index"}

\* C5 as amended: execution is sequential in two phases. Every template is
\* mutated before the first probe begins (once a probe request is issued,
\* update_template has been called for every template and issues no further
\* request), and in the probe phase one template is fully probed (POST, then
\* read-back, then DELETE) before the next template's probe begins.
C5_TwoPhases ==
    /\ (\E i \in DOMAIN log : log[i].fn \in ProbeFns) =>
            \A t \in DetailNames : CallCount("update_template", t) = 1
    /\ \A i \in DOMAIN log : \A j \in DOMAIN log :
        (i < j /\ log[i].fn \in ProbeFns) => log[j].fn \in ProbeFns
    /\ \A i \in DOMAIN log :
        /\ log[i].fn = "verify_index_settings" =>
            /\ i > 1
            /\ log[i - 1].fn = "create_test_document"
            /\ log[i - 1].t = log[i].t
        /\ log[i].fn = "delete_index" =>
            /\ i > 1
            /\ log[i - 1].fn = "verify_index_settings"
            /\ log[i - 1].t = log[i].t
        /\ (log[i].fn = "create_test_document" /\ i > 1
            /\ log[i - 1].fn \in ProbeFns) =>
            /\ log[i - 1].t # log[i].t
            /\ log[i - 1].fn \in {"create_test_document", "delete_index"}

\* Two templates were put back and then both probed and cleaned up.
C5_Witness ==
    /\ Len(updated_templates) = 2
    /\ \A t \in UpdatedNames : CallCount("delete_index", t) = 1

\* C6: create_test_document is invoked only for templates whose
\* update_template returned success; and when the probe creation fails (the
\* response is missing or its result is neither created nor updated), neither
\* verify_index_settings nor delete_index is invoked for that template, which
\* is reported as Failed to test and never as verification failed.
C6_ProbeShortCircuits ==
    /\ \A i \in DOMAIN calls :
        calls[i].fn = "create_test_document" =>
            \E j \in 1..(i - 1) :
                /\ calls[j].fn = "update_template"
                /\ calls[j].t = calls[i].t
                /\ calls[j].ret
                /\ ~calls[j].raised
    /\ \A i \in DOMAIN log :
        (log[i].m = "POST" /\ log[i].mode \in {"garbled", "reject", "nack"}) =>
            /\ CallCount("verify_index_settings", log[i].t) = 0
            /\ CallCount("delete_index", log[i].t) = 0
            /\ Printed("Failed to test", log[i].t)
            /\ ~Printed("updated but verification failed", log[i].t)
            /\ ~Printed("updated and verified", log[i].t)

\* The probe document of an updated template came back with a result that is
\* neither created nor updated, and the run went on to its end.
C6_Witness ==
    /\ pc = "done"
    /\ ret = "0"
    /\ \E i \in DOMAIN log : log[i].m = "POST" /\ log[i].mode = "nack"

InOrder(list) ==
    SelectSeq(template_details, LAMBDA d : d \in Range(list)) = list

\* C10: in a run that reaches the summary, updated_templates and
\* failed_templates partition template_details in its order, exactly one
\* update_template call was made per template, and the exit code is 0.
C10_Partition ==
    (pc = "summary" \/ Printed("Summary", <<>>)) =>
        /\ InOrder(updated_templates)
        /\ InOrder(failed_templates)
        /\ Range(updated_templates) \cap Range(failed_templates) = {}
        /\ Range(updated_templates) \cup Range(failed_templates)
                = Range(template_details)
        /\ Len(updated_templates) + Len(failed_templates) = Len(template_details)
        /\ \A t \in DetailNames : CallCount("update_template", t) = 1
        /\ \A i \in DOMAIN calls :
            calls[i].fn = "update_template" => calls[i].t \in DetailNames
        /\ pc = "done" => (ExitCode = 0 /\ ret = "0")

\* The summary was printed after one template failed and another was updated.
C10_Witness ==
    /\ Printed("Summary", <<>>)
    /\ pc = "done"
    /\ Len(failed_templates) = 1
    /\ Len(updated_templates) = 1

----------------------------------------------------------------------------
(* Claims about update_template (SpecUpdate) *)

\* C7: a second update_template call with the same name and the same
\* shard/replica values, made right after a successful one, leaves the
\* stored templates as the first call left them.
C7_Idempotent ==
    (last.fn = "update_template" /\ last.repeat) => stored = last.before

\* A second call with the same arguments followed a successful one and was
\* acknowledged too.
C7_Witness ==
    /\ last.fn = "update_template"
    /\ last.repeat
    /\ last.ret

\* d2 is d1 with the keys `keys` added or replaced and nothing else changed.
SameBut(d1, d2, keys) ==
    /\ DOMAIN d2 = DOMAIN d1 \cup keys
    /\ \A k \in DOMAIN d1 \ keys : d2[k] = d1[k]

\* C8: after a successful update_template the stored template differs from
\* its prior state only in settings.index.number_of_shards and
\* settings.index.number_of_replicas, which hold the requested integers as
\* strings (settings and settings.index being created when absent); every
\* other field and every other template is unchanged; and when the template
\* is not found or the PUT is not acknowledged, the stored templates are as
\* they were.
C8_ReadModifyWrite ==
    last.fn = "update_template" =>
        IF last.ret
        THEN /\ last.name \in DOMAIN last.before
             /\ SameBut(last.before, stored, {last.name})
             /\ LET old == last.before[last.name]
                    new == stored[last.name]
                    oldSettings == Get(old, "settings", EmptyDict)
                    oldIndex == Get(oldSettings, "index", EmptyDict)
                IN  /\ SameBut(old, new, {"settings"})
                    /\ SameBut(oldSettings, new["settings"], {"index"})
                    /\ SameBut(oldIndex, new["settings"]["index"],
                               {"number_of_shards", "number_of_replicas"})
                    /\ new["settings"]["index"]["number_of_shards"]
                            = <<Digits[last.shards + 1]>>
                    /\ new["settings"]["index"]["number_of_replicas"]
                            = <<Digits[last.replicas + 1]>>
        ELSE stored = last.before

\* An acknowledged update changed the counts of a template that holds other
\* top-level fields, another settings group and another index setting.
C8_Witness ==
    /\ last.fn = "update_template"
    /\ last.ret
    /\ stored # last.before
    /\ Has(last.before[last.name], "order")
    /\ Has(last.before[last.name], "settings")
    /\ Has(last.before[last.name]["settings"], "analysis")
    /\ Has(last.before[last.name]["settings"], "index")
    /\ Has(last.before[last.name]["settings"]["index"], "refresh_interval")

----------------------------------------------------------------------------
(* Claims about verify_index_settings (SpecVerify) *)

\* The response holds the settings of the index asked about.
Readable(response, index_name) ==
    response.kind = "json" /\ index_name \in DOMAIN response.val

\* The index-level settings of a readable response
Reported(response, index_name) ==
    LET entry == response.val[index_name]
    IN  IF Has(entry, "settings") /\ Has(entry["settings"], "index")
        THEN entry["settings"]["index"] ELSE EmptyDict

\* The reported field is present and its number is the expected one.
ReportedEquals(reported, field, expected) ==
    /\ Has(reported, field)
    /\ int(reported[field]).ok
    /\ int(reported[field]).val = expected

ReportedOrSentinelEquals(reported, field, expected) ==
    IF Has(reported, field) THEN ReportedEquals(reported, field, expected)
    ELSE expected = 0 - 1

====
